---- MODULE Spec2Model ----
(***************************************************************************)
(* Model of the Snowflake ID generator of twitter-clone                    *)
(* (src/snowflake/snowflake_generator.py) and of its callers.              *)
(*                                                                         *)
(* Python integers are unbounded, TLC integers are 32 bits wide.  Every    *)
(* Python integer that can leave that range (timestamps, EPOCH, IDs) is    *)
(* a Num: a triple <<h2, h1, h0>> of base-2^22 limbs standing for          *)
(* h2 * 2^44 + h1 * 2^22 + h0, with 0 <= h1, h0 < 2^22 and h2 any integer  *)
(* (two's complement, sign carried by the top limb).  Shifts, masks and    *)
(* ORs are computed on the limbs bit by bit.                               *)
(***************************************************************************)
EXTENDS Integers, Sequences, FiniteSets, TLC

(***************************************************************************)
(* Bounds of the model.                                                    *)
(***************************************************************************)
NumThreads == 2
NumGens == 2
MaxClock == 2
MaxCalls == 3
MaxNodeCalls == 2
BurstMaxClock == 1
MaxEarly == 1
MaxServiceCalls == 2
MaxLiveCalls == 3
MaxBatch == 3
MaxRequests == 2
NumTasks == 3
MaxOverlap == 2
MaxCacheOps == 4

Threads == 1..NumThreads
Tasks == 1..NumTasks
Gens == 1..NumGens
Ticks == 0..MaxClock

(***************************************************************************)
(* Unbounded integers.                                                     *)
(***************************************************************************)
LIMB == 4194304

Norm(h2, h1, h0) ==
    LET m == h1 + (h0 \div LIMB)
    IN  <<h2 + (m \div LIMB), m % LIMB, h0 % LIMB>>

FromInt(n) == Norm(0, 0, n)

Add(a, b) == Norm(a[1] + b[1], a[2] + b[2], a[3] + b[3])

Sub(a, b) == Norm(a[1] - b[1], a[2] - b[2], a[3] - b[3])

Less(a, b) ==
    \/ a[1] < b[1]
    \/ a[1] = b[1] /\ a[2] < b[2]
    \/ a[1] = b[1] /\ a[2] = b[2] /\ a[3] < b[3]

Leq(a, b) == a = b \/ Less(a, b)

RECURSIVE Pow2(_)
Pow2(k) == IF k = 0 THEN 1 ELSE 2 * Pow2(k - 1)

RECURSIVE IntOr(_, _)
IntOr(a, b) ==
    IF a = 0 THEN b
    ELSE IF b = 0 THEN a
    ELSE IF a = -1 \/ b = -1 THEN -1
    ELSE 2 * IntOr(a \div 2, b \div 2)
         + (IF a % 2 = 1 \/ b % 2 = 1 THEN 1 ELSE 0)

RECURSIVE IntAnd(_, _)
IntAnd(a, b) ==
    IF a = 0 \/ b = 0 THEN 0
    ELSE IF a = -1 THEN b
    ELSE IF b = -1 THEN a
    ELSE 2 * IntAnd(a \div 2, b \div 2)
         + (IF a % 2 = 1 /\ b % 2 = 1 THEN 1 ELSE 0)

\* a | b
Or(a, b) == <<IntOr(a[1], b[1]), IntOr(a[2], b[2]), IntOr(a[3], b[3])>>

\* a & b
And(a, b) == <<IntAnd(a[1], b[1]), IntAnd(a[2], b[2]), IntAnd(a[3], b[3])>>

\* a << k, for 0 <= k <= 22
ShiftLeft(a, k) ==
    LET lo == Pow2(22 - k)
        up == Pow2(k)
    IN  <<a[1] * up + (a[2] \div lo),
          (a[2] % lo) * up + (a[3] \div lo),
          (a[3] % lo) * up>>

\* a >> k (arithmetic), for 0 <= k <= 22
ShiftRight(a, k) ==
    LET lo == Pow2(k)
        up == Pow2(22 - k)
    IN  <<a[1] \div lo,
          (a[1] % lo) * up + (a[2] \div lo),
          (a[2] % lo) * up + (a[3] \div lo)>>

\* a Num that is a small non-negative integer, as that integer
ToInt(a) == a[3]

(***************************************************************************)
(* Class constants of SnowflakeGenerator.                                  *)
(***************************************************************************)
\* 1735689600000 = 413820 * 2^22 + 2718720
EPOCH == <<0, 413820, 2718720>>
TIMESTAMP_SHIFT == 22
MACHINE_ID_SHIFT == 12
MAX_MACHINE_ID == 1023
MAX_SEQUENCE == 4095

MinusOne == FromInt(-1)

VARIABLES
    status,          \* status[g]: "none", "ok" (constructed), "invalid" (ValueError)
    arg,             \* arg[g]: the machine_id argument g was constructed with
    machine_id,      \* self.machine_id
    sequence,        \* self.sequence
    last_timestamp,  \* self.last_timestamp, a Num
    lock,            \* self.lock: 0 when free, else the thread that holds it
    clock,           \* the host clock, in milliseconds after ClockOrigin
    pc,              \* pc[t]: where thread t is in generate_id: "idle" (not in a
                     \* call), "acquire" (blocked on the lock), "read", "wait", "fin"
    cur,             \* cur[t]: the instance thread t is calling
    timestamp,       \* the local variable timestamp of thread t's call
    ret,             \* outcome of the call that completed last
    lastId,          \* lastId[g]: the ID g returned last
    issued,          \* issued[g]: number of IDs g has returned
    ids,             \* ids[g]: the IDs g has returned (kept when recording)
    runs,            \* runs[g]: the IDs g has returned, as disjoint intervals <<low, high>>
    got,             \* got[t]: the <<instance, ID>> pairs returned to thread t, in order
    recording,       \* "off", "ids" (issued and ids are kept), "callers" (got
                     \* too) or "runs" (issued and runs are kept)
    budget,          \* calls that may still start; -1: no limit
    seen,            \* seen[t]: what thread t's call found at its first clock read
    stamps,          \* the <<clock reading used, ID>> pairs of the IDs returned
                     \* (kept when recording is "ids")
    parsed,          \* the dictionary the last parse_id call returned
    req,             \* the GET /ids/{count} or GET /id request being handled, or NoReq
    resp,            \* the last response to a GET /ids/{count} or GET /id request;
                     \* detail of a 500 is str(e), kept as the kind of the failure
    accounts,        \* the rows of table accounts: [user_id, email]
    relationships,   \* the rows of the follow relationships: [id, follower, followee, deleted]
    tweets,          \* the rows of the tweets: [tweet_id, user_id]
    task,            \* task[k]: the request handled by coroutine k of a consuming service
    asked,           \* number of GET /id requests the consuming services have sent
    constrained,     \* whether the tables reject a second row for an email or a pair
    all_caches,      \* the dictionary of the cache service: dataset -> LRUCache, a
                     \* cache being its <<key, value>> entries from least to most
                     \* recently used
    last_op,         \* last_op[d][k]: the last save or delete request on key k of
                     \* dataset d, with the value saved
    cresp,           \* the last response of the cache service
    cops             \* number of requests the cache service has answered

vars == <<status, arg, machine_id, sequence, last_timestamp, lock, clock, pc,
          cur, timestamp, seen, ret, lastId, issued,
          ids, runs, got, recording, budget, stamps, parsed, req, resp,
          accounts, relationships, tweets, task, asked, constrained,
          all_caches, last_op, cresp, cops>>

cacheVars == <<all_caches, last_op, cresp, cops>>
svcVars == <<accounts, relationships, tweets, task, asked, constrained>>
genVars == <<status, arg, machine_id, sequence, last_timestamp>>
histVars == <<lastId, issued, ids, runs, got, stamps, parsed, req, resp, svcVars,
              cacheVars>>

\* the clock readings of the model are ClockOrigin, ClockOrigin + 1, ...,
\* ClockOrigin + MaxClock: the first milliseconds of the generator's epoch
ClockOrigin == EPOCH

\* int(time.time() * 1000)
CurrentTimestamp == Add(ClockOrigin, FromInt(clock))

NoId == <<-1, 0, 0>>
NoSeen == [case |-> "none", waited |-> FALSE, before |-> <<0, MinusOne>>]
NoReq == [path |-> "none", count |-> 0, issued |-> 0]
NoResp == [status |-> 0, ids |-> <<>>, detail |-> "", n |-> 0]
NoRet == [kind |-> "none", gen |-> 0, id |-> NoId, case |-> "none",
          waited |-> FALSE, before |-> <<0, MinusOne>>]


(***************************************************************************)
(* SnowflakeGenerator.__init__                                             *)
(***************************************************************************)
\* the upper end of the range is not checked
ValidMachineIdNoUpper(n) == ~(n < 0)

ValidMachineId(n) == ~(n < 0 \/ n > MAX_MACHINE_ID)

NodeIdInputs == {-1, 0, 1023, 1024}

Construct(g, n) ==
    /\ status[g] = "none"
    /\ arg' = [arg EXCEPT ![g] = n]
    /\ IF ValidMachineId(n)
       THEN /\ status' = [status EXCEPT ![g] = "ok"]
            /\ machine_id' = [machine_id EXCEPT ![g] = n]
            /\ sequence' = [sequence EXCEPT ![g] = 0]
            /\ last_timestamp' = [last_timestamp EXCEPT ![g] = MinusOne]
            /\ lock' = [lock EXCEPT ![g] = 0]
       ELSE /\ status' = [status EXCEPT ![g] = "invalid"]
            /\ UNCHANGED <<machine_id, sequence, last_timestamp, lock>>
    /\ UNCHANGED <<clock, pc, cur, timestamp, seen, ret, histVars, recording, budget>>

(***************************************************************************)
(* A set of IDs kept as a set of disjoint intervals <<low, high>>: the set  *)
(* of the IDs a burst returns has thousands of members and a few intervals. *)
(***************************************************************************)
InInterval(iv, id) == Leq(iv[1], id) /\ Leq(id, iv[2])

Member(S, id) == \E iv \in S : InInterval(iv, id)

\* S with id added: nothing changes when id is in S, an interval that ends
\* right below id grows by one, else id is an interval of its own
Insert(S, id) ==
    IF Member(S, id) THEN S
    ELSE IF \E iv \in S : Add(iv[2], FromInt(1)) = id
    THEN LET iv == CHOOSE v \in S : Add(v[2], FromInt(1)) = id
         IN  (S \ {iv}) \cup {<<iv[1], id>>}
    ELSE S \cup {<<id, id>>}

\* the number of IDs in S
RECURSIVE Size(_)
Size(S) ==
    IF S = {} THEN 0
    ELSE LET iv == CHOOSE v \in S : TRUE
         IN  ToInt(Sub(iv[2], iv[1])) + 1 + Size(S \ {iv})

(***************************************************************************)
(* SnowflakeGenerator.generate_id                                          *)
(***************************************************************************)
\* generate_id without the lock
LockAlwaysFree(g) == TRUE

\* threading.Lock: acquired by "with self.lock" only when no thread holds it
LockFree(g) == lock[g] = 0

\* no reading is refused
ClockBackwardsNever(ts, last) == FALSE

\* a clock one millisecond behind is let through
ClockBackwardsLax(ts, last) == Less(Add(ts, FromInt(1)), last)

\* once a call has failed, the next call fails as well
ClockBackwardsSticky(ts, last) == Less(ts, last) \/ ret.kind = "clock_backwards"

\* line 52: timestamp < self.last_timestamp
ClockBackwards(ts, last) == Less(ts, last)

\* line 55: timestamp == self.last_timestamp
SameMillis(ts, last) == ts = last

\* the incremented sequence is not masked
NextSequenceNoMask(seq) == seq + 1

\* the sequence is masked with MAX_MACHINE_ID
NextSequenceWrongMask(seq) == IntAnd(seq + 1, MAX_MACHINE_ID)

\* line 56: (self.sequence + 1) & self.MAX_SEQUENCE
NextSequence(seq) == IntAnd(seq + 1, MAX_SEQUENCE)

\* the wrapped sequence is used without waiting
SequenceNeverExhausted(seq) == FALSE

\* line 57: self.sequence == 0
SequenceExhausted(seq) == seq = 0

\* the wait never ends
StillWaitingForever(ts, last) == TRUE

\* the loop of _wait_next_millis stops at timestamp == last_timestamp
StillWaitingStrict(ts, last) == Less(ts, last)

\* the wait ends on any reading other than last_timestamp
StillWaitingEqualOnly(ts, last) == ts = last

\* line 43: the loop of _wait_next_millis goes on while timestamp <= last_timestamp
StillWaiting(ts, last) == Leq(ts, last)

\* the sequence is left out of the ID
EncodeNoSequence(ts, m, seq) ==
    Or(ShiftLeft(Sub(ts, EPOCH), TIMESTAMP_SHIFT),
       ShiftLeft(FromInt(m), MACHINE_ID_SHIFT))

\* the machine id is left out of the ID
EncodeNoMachine(ts, m, seq) ==
    Or(ShiftLeft(Sub(ts, EPOCH), TIMESTAMP_SHIFT), FromInt(seq))

\* the timestamp is shifted over the sequence only
EncodeShallowShift(ts, m, seq) ==
    Or(Or(ShiftLeft(Sub(ts, EPOCH), MACHINE_ID_SHIFT),
          ShiftLeft(FromInt(m), MACHINE_ID_SHIFT)),
       FromInt(seq))

\* a new millisecond begins at sequence 1
FreshSequenceOne(seq) == 1

\* the sequence is kept when a new millisecond begins
FreshSequenceKept(seq) == seq

\* line 60: self.sequence = 0
FreshSequence(seq) == 0

\* lines 65-69
Encode(ts, m, seq) ==
    Or(Or(ShiftLeft(Sub(ts, EPOCH), TIMESTAMP_SHIFT),
          ShiftLeft(FromInt(m), MACHINE_ID_SHIFT)),
       FromInt(seq))

\* line 49: with self.lock
\* the lock is kept when the with statement is left
ReleaseKept(g) == lock

\* line 49: leaving the with statement, by return or by exception, releases the lock
Release(g) == [lock EXCEPT ![g] = 0]

Acquire(t, g) ==
    /\ pc[t] = "idle"
    /\ status[g] = "ok"
    /\ budget # 0
    /\ LockFree(g)
    /\ lock' = [lock EXCEPT ![g] = t]
    /\ pc' = [pc EXCEPT ![t] = "read"]
    /\ cur' = [cur EXCEPT ![t] = g]
    /\ budget' = IF budget > 0 THEN budget - 1 ELSE budget
    /\ UNCHANGED <<genVars, clock, timestamp, seen, ret, histVars, recording>>

\* line 47: thread t calls generate_id on instance g and reaches the with statement
Call(t, g) ==
    /\ pc[t] = "idle"
    /\ status[g] = "ok"
    /\ budget # 0
    /\ pc' = [pc EXCEPT ![t] = "acquire"]
    /\ cur' = [cur EXCEPT ![t] = g]
    /\ budget' = IF budget > 0 THEN budget - 1 ELSE budget
    /\ UNCHANGED <<genVars, lock, clock, timestamp, seen, ret, histVars, recording>>

\* line 49: the blocked thread gets the lock
Enter(t) ==
    /\ pc[t] = "acquire"
    /\ LockFree(cur[t])
    /\ lock' = [lock EXCEPT ![cur[t]] = t]
    /\ pc' = [pc EXCEPT ![t] = "read"]
    /\ UNCHANGED <<genVars, clock, cur, timestamp, seen, ret, histVars, recording, budget>>

\* lines 50-60: read the clock, refuse a clock that went backwards, update sequence
ReadAndBranch(t) ==
    LET g == cur[t]
        ts == CurrentTimestamp
        before == <<sequence[g], last_timestamp[g]>>
    IN  /\ pc[t] = "read"
        /\ IF ClockBackwards(ts, last_timestamp[g])
           THEN \* line 53: raise; the with statement releases the lock
                /\ lock' = Release(g)
                /\ pc' = [pc EXCEPT ![t] = "idle"]
                /\ ret' = [kind |-> "clock_backwards", gen |-> g, id |-> NoId,
                           case |-> "lt", waited |-> FALSE, before |-> before]
                /\ UNCHANGED <<sequence, timestamp, seen>>
           ELSE /\ seen' = [seen EXCEPT ![t] =
                              [case |-> IF SameMillis(ts, last_timestamp[g])
                                        THEN "eq" ELSE "gt",
                               waited |-> FALSE, before |-> before]]
                /\ IF SameMillis(ts, last_timestamp[g])
                   THEN /\ sequence' = [sequence EXCEPT ![g] = NextSequence(sequence[g])]
                        /\ IF SequenceExhausted(sequence'[g])
                           THEN /\ pc' = [pc EXCEPT ![t] = "wait"]
                                /\ UNCHANGED timestamp
                           ELSE /\ pc' = [pc EXCEPT ![t] = "fin"]
                                /\ timestamp' = [timestamp EXCEPT ![t] = ts]
                   ELSE /\ sequence' = [sequence EXCEPT ![g] = FreshSequence(sequence[g])]
                        /\ pc' = [pc EXCEPT ![t] = "fin"]
                        /\ timestamp' = [timestamp EXCEPT ![t] = ts]
                /\ UNCHANGED <<lock, ret>>
        /\ UNCHANGED <<status, arg, machine_id, last_timestamp, clock, cur,
                       histVars, recording, budget>>

\* a poll that finds the clock behind last_timestamp raises
WaitPollRaises(t) ==
    LET g == cur[t]
        ts == CurrentTimestamp
    IN  /\ pc[t] = "wait"
        /\ IF ClockBackwards(ts, last_timestamp[g])
           THEN /\ lock' = [lock EXCEPT ![g] = 0]
                /\ pc' = [pc EXCEPT ![t] = "idle"]
                /\ ret' = [kind |-> "clock_backwards", gen |-> g, id |-> NoId,
                           case |-> "lt", waited |-> TRUE, before |-> seen[t].before]
                /\ seen' = [seen EXCEPT ![t] = NoSeen]
                /\ UNCHANGED timestamp
           ELSE /\ IF StillWaiting(ts, last_timestamp[g])
                   THEN UNCHANGED <<pc, timestamp>>
                   ELSE /\ pc' = [pc EXCEPT ![t] = "fin"]
                        /\ timestamp' = [timestamp EXCEPT ![t] = ts]
                /\ seen' = [seen EXCEPT ![t].waited = TRUE]
                /\ UNCHANGED <<lock, ret>>
        /\ UNCHANGED <<genVars, clock, cur, histVars, recording, budget>>

\* lines 42-45 and 58: one poll of _wait_next_millis(self.last_timestamp)
WaitPoll(t) ==
    LET g == cur[t]
        ts == CurrentTimestamp
    IN  /\ pc[t] = "wait"
        /\ IF StillWaiting(ts, last_timestamp[g])
           THEN UNCHANGED <<pc, timestamp>>
           ELSE /\ pc' = [pc EXCEPT ![t] = "fin"]
                /\ timestamp' = [timestamp EXCEPT ![t] = ts]
        /\ seen' = [seen EXCEPT ![t].waited = TRUE]
        /\ UNCHANGED <<genVars, lock, clock, cur, ret, histVars,
                       recording, budget>>

\* lines 62-71: store the timestamp, encode, return; the lock is released
Finish(t) ==
    LET g == cur[t]
        id == Encode(timestamp[t], machine_id[g], sequence[g])
    IN  /\ pc[t] = "fin"
        /\ last_timestamp' = [last_timestamp EXCEPT ![g] = timestamp[t]]
        /\ lock' = Release(g)
        /\ pc' = [pc EXCEPT ![t] = "idle"]
        /\ ret' = [kind |-> "id", gen |-> g, id |-> id, case |-> seen[t].case,
                   waited |-> seen[t].waited, before |-> seen[t].before]
        /\ lastId' = [lastId EXCEPT ![g] = id]
        /\ issued' = IF recording # "off" THEN [issued EXCEPT ![g] = @ + 1] ELSE issued
        /\ ids' = IF recording \in {"ids", "callers"}
                  THEN [ids EXCEPT ![g] = @ \cup {id}] ELSE ids
        /\ runs' = IF recording = "runs"
                   THEN [runs EXCEPT ![g] = Insert(@, id)] ELSE runs
        /\ got' = IF recording = "callers"
                  THEN [got EXCEPT ![t] = Append(@, <<g, id>>)] ELSE got
        /\ stamps' = IF recording = "ids"
                     THEN stamps \cup {<<timestamp[t], id>>} ELSE stamps
        /\ timestamp' = [timestamp EXCEPT ![t] = MinusOne]
        /\ seen' = [seen EXCEPT ![t] = NoSeen]
        /\ UNCHANGED <<status, arg, machine_id, sequence, clock, cur,
                       recording, budget, parsed, req, resp, svcVars, cacheVars>>

(***************************************************************************)
(* SnowflakeGenerator.parse_id                                             *)
(***************************************************************************)
\* EPOCH is not added back
ParseTimestampNoEpoch(id) == ShiftRight(id, TIMESTAMP_SHIFT)

\* line 75
ParseTimestamp(id) == Add(ShiftRight(id, TIMESTAMP_SHIFT), EPOCH)

\* the machine id field is not masked off
ParseMachineIdNoMask(id) == ToInt(ShiftRight(id, MACHINE_ID_SHIFT))

\* line 76
ParseMachineId(id) ==
    ToInt(And(ShiftRight(id, MACHINE_ID_SHIFT), FromInt(MAX_MACHINE_ID)))

\* line 77
ParseSequence(id) == ToInt(And(id, FromInt(MAX_SEQUENCE)))

\* no parse_id call has returned yet
NoParsed ==
    [id |-> NoId, timestamp |-> MinusOne, machine_id |-> -1, sequence |-> -1,
     held |-> 0]

\* lines 75-85: the dictionary parse_id returns, without its "datetime" entry
\* (a rendering of timestamp by time.gmtime and time.strftime); held is not
\* part of the dictionary: it notes who held the lock of the instance while
\* the call ran
ParseResult(snowflake_id, holder) ==
    [id |-> snowflake_id,
     timestamp |-> ParseTimestamp(snowflake_id),
     machine_id |-> ParseMachineId(snowflake_id),
     sequence |-> ParseSequence(snowflake_id),
     held |-> holder]

\* parse_id run under the lock of the instance
ParseIdLocked(g, snowflake_id) ==
    /\ status[g] = "ok"
    /\ LockFree(g)
    /\ parsed' = ParseResult(snowflake_id, lock[g])
    /\ UNCHANGED <<cacheVars, svcVars, genVars, lock, clock, pc, cur, timestamp, seen, ret, lastId,
                   issued, ids, runs, got, stamps, recording, budget, req, resp, svcVars>>

\* lines 73-85: parse_id(snowflake_id) on instance g. It takes no lock and
\* assigns no attribute.
ParseId(g, snowflake_id) ==
    /\ status[g] = "ok"
    /\ parsed' = ParseResult(snowflake_id, lock[g])
    /\ UNCHANGED <<cacheVars, svcVars, genVars, lock, clock, pc, cur, timestamp, seen, ret, lastId,
                   issued, ids, runs, got, stamps, recording, budget, req, resp, svcVars>>

(***************************************************************************)
(* The host clock (time.time): it advances, and it may be set back.        *)
(***************************************************************************)
Tick ==
    /\ clock < MaxClock
    /\ clock' = clock + 1
    /\ UNCHANGED <<genVars, lock, pc, cur, timestamp, ret, seen, histVars, recording, budget>>

ClockBack ==
    /\ \E c \in Ticks : c < clock /\ clock' = c
    /\ UNCHANGED <<genVars, lock, pc, cur, timestamp, ret, seen, histVars, recording, budget>>

\* a burst of calls: time passes only while a caller spins in _wait_next_millis
BurstTick ==
    /\ \E t \in Threads : pc[t] = "wait"
    /\ clock < BurstMaxClock
    /\ Tick

(***************************************************************************)
(* The services that consume IDs: signup of the account service, follow    *)
(* and tweet of the timeline service.  A handler is a coroutine: it runs   *)
(* on its own up to `await get_snowflake_id()`, where other requests run,  *)
(* and on its own again once the ID or the failure has come back.          *)
(***************************************************************************)
HTTP_201_CREATED == 201
HTTP_404_NOT_FOUND == 404
HTTP_409_CONFLICT == 409
HTTP_500_INTERNAL_SERVER_ERROR == 500
HTTP_503_SERVICE_UNAVAILABLE == 503

Emails == {"a@x", "b@x"}
Users == {1, 2}
Handles == {"ann", "bob", "ghost"}

\* a coroutine that has not received a request
NoTask == [op |-> "none", pc |-> "new", email |-> "", user |-> 0, followee |-> 0,
           id |-> 0, err |-> 0, status |-> 0]

\* the generator is not part of the consuming services
GeneratorAside ==
    UNCHANGED <<genVars, lock, clock, pc, cur, timestamp, seen, ret, lastId, issued,
                ids, runs, got, recording, budget, stamps, parsed, req, resp>>

\* SELECT ... FROM accounts WHERE email = %s
get_account_by_email(email) == {a \in accounts : a.email = email}

\* the user_id of the profile with the handle, 0 for None
get_user_by_handle(h) == IF h = "ann" THEN 1 ELSE IF h = "bob" THEN 2 ELSE 0

\* the rows of the pair
get_relationship(follower, followee) ==
    {r \in relationships : r.follower = follower /\ r.followee = followee}

\* the row with the id gets the flag
update_relationship(id, deleted) ==
    {IF r.id = id THEN [r EXCEPT !.deleted = deleted] ELSE r : r \in relationships}

\* the flag is passed on as it was read
NewDeletedSame(unfollowed) == unfollowed

\* line 60: not unfollowed
NewDeleted(unfollowed) == ~unfollowed

\* every HTTPException of the ID request is answered as a 500
ReraiseAs500(e) == HTTP_500_INTERNAL_SERVER_ERROR

\* except HTTPException: raise
Reraise(e) == e

\* the outcomes of get_snowflake_id
Outcomes == {"ok", "transport", "other"}

\* the handler ends with the status
Done(k, st) == [task EXCEPT ![k].pc = "done", ![k].status = st]

\* signup up to the await: the existence check
SignupCheck(k, email) ==
    /\ task[k].pc = "new"
    /\ task' = [task EXCEPT ![k] =
                  IF get_account_by_email(email) # {}
                  THEN [NoTask EXCEPT !.op = "signup", !.email = email,
                                      !.pc = "done", !.status = HTTP_409_CONFLICT]
                  ELSE [NoTask EXCEPT !.op = "signup", !.email = email, !.pc = "await"]]
    /\ UNCHANGED <<accounts, relationships, tweets, asked, constrained>>
    /\ GeneratorAside /\ UNCHANGED cacheVars

\* follow up to the await: 404, 409, the reactivation of the record found,
\* or on to the ID request
FollowCheck(k, follower, handle) ==
    LET followee == get_user_by_handle(handle)
        found == get_relationship(follower, followee)
        t == [NoTask EXCEPT !.op = "follow", !.user = follower, !.followee = followee]
    IN  /\ task[k].pc = "new"
        /\ IF followee = 0
           THEN /\ task' = [task EXCEPT ![k] =
                              [t EXCEPT !.pc = "done", !.status = HTTP_404_NOT_FOUND]]
                /\ UNCHANGED relationships
           ELSE IF found = {}
           THEN /\ task' = [task EXCEPT ![k] = [t EXCEPT !.pc = "await"]]
                /\ UNCHANGED relationships
           ELSE \E relationship \in found :
                  LET unfollowed == relationship.deleted
                  IN  IF unfollowed
                      THEN /\ relationships' =
                                update_relationship(relationship.id, NewDeleted(unfollowed))
                           /\ task' = [task EXCEPT ![k] =
                                         [t EXCEPT !.pc = "done", !.id = relationship.id,
                                                   !.status = HTTP_201_CREATED]]
                      ELSE /\ task' = [task EXCEPT ![k] =
                                         [t EXCEPT !.pc = "done", !.id = relationship.id,
                                                   !.status = HTTP_409_CONFLICT]]
                           /\ UNCHANGED relationships
        /\ UNCHANGED <<accounts, tweets, asked, constrained>>
        /\ GeneratorAside /\ UNCHANGED cacheVars

\* tweet up to the await
TweetBegin(k, user_id) ==
    /\ task[k].pc = "new"
    /\ task' = [task EXCEPT ![k] = [NoTask EXCEPT !.op = "tweet", !.user = user_id,
                                                  !.pc = "await"]]
    /\ UNCHANGED <<accounts, relationships, tweets, asked, constrained>>
    /\ GeneratorAside /\ UNCHANGED cacheVars

\* get_snowflake_id: the request is sent; the ID of the answer is returned, a
\* transport error becomes a 503, anything else a 500.  The service answers
\* every request with another ID: the IDs are numbered by request.
GetSnowflakeId(k, outcome) ==
    /\ task[k].pc = "await"
    /\ asked' = asked + 1
    /\ task' = [task EXCEPT ![k] =
                  IF outcome = "ok"
                  THEN [@ EXCEPT !.pc = "resume", !.id = asked + 1]
                  ELSE [@ EXCEPT !.pc = "resume",
                                 !.err = IF outcome = "transport"
                                         THEN HTTP_503_SERVICE_UNAVAILABLE
                                         ELSE HTTP_500_INTERNAL_SERVER_ERROR]]
    /\ UNCHANGED <<accounts, relationships, tweets, constrained>>
    /\ GeneratorAside /\ UNCHANGED cacheVars

\* signup after the await: the HTTPException is raised again, or the account is
\* inserted; an insert the table refuses is answered with a 500
SignupInsert(k) ==
    LET t == task[k]
    IN  /\ t.op = "signup" /\ t.pc = "resume"
        /\ IF t.err # 0
           THEN /\ task' = Done(k, Reraise(t.err))
                /\ UNCHANGED accounts
           ELSE IF constrained /\ get_account_by_email(t.email) # {}
           THEN /\ task' = Done(k, HTTP_500_INTERNAL_SERVER_ERROR)
                /\ UNCHANGED accounts
           ELSE /\ accounts' = accounts \cup {[user_id |-> t.id, email |-> t.email]}
                /\ task' = Done(k, HTTP_201_CREATED)
        /\ UNCHANGED <<relationships, tweets, asked, constrained>>
        /\ GeneratorAside /\ UNCHANGED cacheVars

\* follow after the await
FollowInsert(k) ==
    LET t == task[k]
    IN  /\ t.op = "follow" /\ t.pc = "resume"
        /\ IF t.err # 0
           THEN /\ task' = Done(k, Reraise(t.err))
                /\ UNCHANGED relationships
           ELSE IF constrained /\ get_relationship(t.user, t.followee) # {}
           THEN /\ task' = Done(k, HTTP_500_INTERNAL_SERVER_ERROR)
                /\ UNCHANGED relationships
           ELSE /\ relationships' = relationships \cup
                       {[id |-> t.id, follower |-> t.user, followee |-> t.followee,
                         deleted |-> FALSE]}
                /\ task' = Done(k, HTTP_201_CREATED)
        /\ UNCHANGED <<accounts, tweets, asked, constrained>>
        /\ GeneratorAside /\ UNCHANGED cacheVars

\* tweet after the await
TweetInsert(k) ==
    LET t == task[k]
    IN  /\ t.op = "tweet" /\ t.pc = "resume"
        /\ IF t.err # 0
           THEN /\ task' = Done(k, Reraise(t.err))
                /\ UNCHANGED tweets
           ELSE /\ tweets' = tweets \cup {[tweet_id |-> t.id, user_id |-> t.user]}
                /\ task' = Done(k, HTTP_201_CREATED)
        /\ UNCHANGED <<accounts, relationships, asked, constrained>>
        /\ GeneratorAside /\ UNCHANGED cacheVars

\* the follower unfollows: the active record of the pair is marked deleted
Unfollow(follower, followee) ==
    /\ \E r \in get_relationship(follower, followee) :
          /\ ~r.deleted
          /\ relationships' = update_relationship(r.id, TRUE)
    /\ UNCHANGED <<accounts, tweets, task, asked, constrained>>
    /\ GeneratorAside /\ UNCHANGED cacheVars

\* empty tables, no request yet
InitTables ==
    /\ accounts = {}
    /\ relationships = {}
    /\ tweets = {}
    /\ task = [k \in Tasks |-> NoTask]
    /\ asked = 0

(***************************************************************************)
(* The cache service (cache_service/main.py): one LRUCache per dataset.    *)
(* The handlers are coroutines without an await: each runs from its first  *)
(* line to its return.  An LRUCache is kept as the sequence of its entries *)
(* from the least to the most recently used.                               *)
(***************************************************************************)
maxsize == 1000000
HTTP_200_OK == 200

Datasets == {"users", "tweets"}
CacheKeys == {"k1", "k2"}
CacheValues == {"", "v"}

\* Python's None where a value is expected
None == "<None>"

NoCacheResp == [op |-> "none", dataset |-> "", key |-> "", found |-> FALSE,
                value |-> None, status |-> 0]

\* the position of the key in the cache, 0 if it is not there
Index(cache, key) ==
    IF \E i \in 1..Len(cache) : cache[i][1] = key
    THEN CHOOSE i \in 1..Len(cache) : cache[i][1] = key
    ELSE 0

\* the cache without its entry i
Without(cache, i) == [j \in 1..(Len(cache) - 1) |-> IF j < i THEN cache[j] ELSE cache[j + 1]]

\* cache.get(key, None): the value, and the entry becomes the most recently used
GetValue(cache, key) == IF Index(cache, key) = 0 THEN None ELSE cache[Index(cache, key)][2]

GetTouch(cache, key) ==
    IF Index(cache, key) = 0 THEN cache
    ELSE Append(Without(cache, Index(cache, key)), cache[Index(cache, key)])

\* cache[key] = value: the entry is replaced or added as the most recently
\* used; a full cache first drops its least recently used entry
SetItem(cache, key, value) ==
    IF Index(cache, key) # 0
    THEN Append(Without(cache, Index(cache, key)), <<key, value>>)
    ELSE IF Len(cache) >= maxsize
    THEN Append(Tail(cache), <<key, value>>)
    ELSE Append(cache, <<key, value>>)

\* cache.pop(key) of a key that is there
Pop(cache, key) == Without(cache, Index(cache, key))

\* a cache is made for every request
NoCacheAlways(dataset) == TRUE

\* line 13: not cache, for a dataset without a cache and for an empty cache
NoCache(dataset) == dataset \notin DOMAIN all_caches \/ all_caches[dataset] = <<>>

\* lines 11-16: all_caches after get_cache(dataset); the cache returned is
\* the one it holds for the dataset
get_cache(dataset) ==
    [d \in DOMAIN all_caches \cup {dataset} |->
        IF d = dataset /\ NoCache(dataset) THEN <<>> ELSE all_caches[d]]

\* what pop does with a key that is not there: cachebox is not part of the
\* source tree; it returns the default or raises KeyError like a dict
PopMissing == {"default", "KeyError"}

\* the save or delete request is the last one on its key
Noted(dataset, key, op, value) ==
    [last_op EXCEPT ![dataset][key] = [op |-> op, value |-> value]]

\* lines 61-68
save_endpoint(dataset, key, value) ==
    /\ cops < MaxCacheOps
    /\ all_caches' = [get_cache(dataset) EXCEPT ![dataset] = SetItem(@, key, value)]
    /\ cresp' = [op |-> "save", dataset |-> dataset, key |-> key, found |-> FALSE,
                 value |-> None, status |-> HTTP_201_CREATED]
    /\ last_op' = Noted(dataset, key, "save", value)
    /\ cops' = cops + 1
    /\ GeneratorAside /\ UNCHANGED svcVars

\* lines 72-76
read_endpoint(dataset, key) ==
    LET cache == get_cache(dataset)[dataset]
        value == GetValue(cache, key)
        found == value # None
    IN  /\ cops < MaxCacheOps
        /\ all_caches' = [get_cache(dataset) EXCEPT ![dataset] = GetTouch(cache, key)]
        /\ cresp' = [op |-> "read", dataset |-> dataset, key |-> key, found |-> found,
                     value |-> value, status |-> HTTP_200_OK]
        /\ cops' = cops + 1
        /\ UNCHANGED last_op
        /\ GeneratorAside /\ UNCHANGED svcVars

\* lines 80-88; an exception of pop is answered with a 500
delete_endpoint(dataset, key, missing) ==
    LET cache == get_cache(dataset)[dataset]
        value == GetValue(cache, key)
        found == value # None
    IN  /\ cops < MaxCacheOps
        /\ IF Index(cache, key) # 0
           THEN /\ all_caches' = [get_cache(dataset) EXCEPT ![dataset] = Pop(cache, key)]
                /\ cresp' = [op |-> "delete", dataset |-> dataset, key |-> key,
                             found |-> found, value |-> None,
                             status |-> HTTP_201_CREATED]
           ELSE /\ all_caches' = get_cache(dataset)
                /\ cresp' = [op |-> "delete", dataset |-> dataset, key |-> key,
                             found |-> found, value |-> None,
                             status |-> IF missing = "default" THEN HTTP_201_CREATED
                                        ELSE HTTP_500_INTERNAL_SERVER_ERROR]
        /\ last_op' = Noted(dataset, key, "delete", None)
        /\ cops' = cops + 1
        /\ GeneratorAside /\ UNCHANGED svcVars

\* line 8: all_caches = {}
InitCache ==
    /\ all_caches = <<>>
    /\ last_op = [d \in Datasets |-> [k \in CacheKeys |-> [op |-> "none", value |-> None]]]
    /\ cresp = NoCacheResp
    /\ cops = 0

(***************************************************************************)
(* Specifications.                                                         *)
(***************************************************************************)
\* no generate_id call in progress, nothing returned yet
InitIdle ==
    /\ pc = [t \in Threads |-> "idle"]
    /\ cur = [t \in Threads |-> 1]
    /\ timestamp = [t \in Threads |-> MinusOne]
    /\ seen = [t \in Threads |-> NoSeen]
    /\ ret = NoRet
    /\ lastId = [g \in Gens |-> NoId]
    /\ issued = [g \in Gens |-> 0]
    /\ ids = [g \in Gens |-> {}]
    /\ runs = [g \in Gens |-> {}]
    /\ got = [t \in Threads |-> <<>>]
    /\ stamps = {}
    /\ parsed = NoParsed
    /\ req = NoReq
    /\ resp = NoResp

\* no call in progress, nothing returned yet, no consuming service at work
InitLocals ==
    /\ InitIdle
    /\ InitTables
    /\ constrained = FALSE
    /\ InitCache

InitCallers == clock \in Ticks /\ InitLocals

\* no instance constructed yet
InitNone ==
    /\ status = [g \in Gens |-> "none"]
    /\ arg = [g \in Gens |-> 0]
    /\ machine_id = [g \in Gens |-> 0]
    /\ sequence = [g \in Gens |-> 0]
    /\ last_timestamp = [g \in Gens |-> MinusOne]
    /\ lock = [g \in Gens |-> 0]

\* the state after SnowflakeGenerator(machine_id=1), the instance of the tests
InitOne ==
    /\ status = [g \in Gens |-> IF g = 1 THEN "ok" ELSE "none"]
    /\ arg = [g \in Gens |-> IF g = 1 THEN 1 ELSE 0]
    /\ machine_id = [g \in Gens |-> IF g = 1 THEN 1 ELSE 0]
    /\ sequence = [g \in Gens |-> 0]
    /\ last_timestamp = [g \in Gens |-> MinusOne]
    /\ lock = [g \in Gens |-> 0]

\* one instance shared by the threads, any clock
Init == InitOne /\ InitCallers /\ recording = "off" /\ budget = -1

Next ==
    \/ \E t \in Threads, g \in Gens : Acquire(t, g)
    \/ \E t \in Threads : ReadAndBranch(t)
    \/ \E t \in Threads : WaitPoll(t)
    \/ \E t \in Threads : Finish(t)
    \/ Tick
    \/ ClockBack

Spec == Init /\ [][Next]_vars

\* one instance shared by the threads, a clock that never goes back
NextMono ==
    \/ \E t \in Threads, g \in Gens : Acquire(t, g)
    \/ \E t \in Threads : ReadAndBranch(t)
    \/ \E t \in Threads : WaitPoll(t)
    \/ \E t \in Threads : Finish(t)
    \/ Tick

SpecMono == Init /\ [][NextMono]_vars

\* one instance shared by the threads, a few calls, any clock, each thread's IDs recorded
InitThreads == InitOne /\ InitCallers /\ recording = "callers" /\ budget = MaxCalls

NextThreads ==
    \/ \E t \in Threads, g \in Gens : Acquire(t, g)
    \/ \E t \in Threads : ReadAndBranch(t)
    \/ \E t \in Threads : Finish(t)
    \/ Tick
    \/ ClockBack

SpecThreads == InitThreads /\ [][NextThreads]_vars

\* one instance shared by the threads, a burst of calls, the IDs recorded
InitBurst == InitOne /\ InitCallers /\ clock = 0 /\ recording = "runs" /\ budget = -1

NextBurst ==
    \/ \E t \in Threads, g \in Gens : Acquire(t, g)
    \/ \E t \in Threads : ReadAndBranch(t)
    \/ \E t \in Threads : WaitPoll(t)
    \/ \E t \in Threads : Finish(t)
    \/ BurstTick

SpecBurst == InitBurst /\ [][NextBurst]_vars

\* several instances, constructed with any machine_id, a few calls under a
\* clock that never goes back, the IDs recorded
InitNodes == InitNone /\ InitCallers /\ recording = "ids" /\ budget = MaxNodeCalls

NextNodes ==
    \/ \E g \in Gens, n \in NodeIdInputs : Construct(g, n)
    \/ \E t \in Threads, g \in Gens : Acquire(t, g)
    \/ \E t \in Threads : ReadAndBranch(t)
    \/ \E t \in Threads : Finish(t)
    \/ Tick

SpecNodes == InitNodes /\ [][NextNodes]_vars

\* a host clock that may also start before EPOCH (time.time() is whatever the
\* host was set to): readings from ClockOrigin - MaxEarly on
EarlyTicks == (0 - MaxEarly)..MaxClock

\* one instance shared by the threads, a few calls, a clock that starts anywhere
InitEpoch == InitOne /\ InitLocals /\ clock \in EarlyTicks /\ recording = "off" /\ budget = MaxCalls

NextEpoch ==
    \/ \E t \in Threads, g \in Gens : Acquire(t, g)
    \/ \E t \in Threads : ReadAndBranch(t)
    \/ \E t \in Threads : Finish(t)
    \/ Tick

SpecEpoch == InitEpoch /\ [][NextEpoch]_vars

\* integers at the ends of the signed and unsigned 64-bit ranges:
\* 0, 1, -1, 2^63 - 1, 2^63, 2^64 - 1, -2^63
WordInputs ==
    {FromInt(0), FromInt(1), FromInt(-1), <<524287, LIMB - 1, LIMB - 1>>,
     <<524288, 0, 0>>, <<1048575, LIMB - 1, LIMB - 1>>, <<-524288, 0, 0>>}

\* what parse_id is called with: those, and the IDs generate_id returned last
ParseInputs == WordInputs \cup {lastId[g] : g \in Gens}

\* one instance shared by the threads, a few generate_id calls and parse_id
\* calls at any moment
InitService == InitOne /\ InitCallers /\ recording = "off" /\ budget = MaxServiceCalls

NextService ==
    \/ \E t \in Threads, g \in Gens : Acquire(t, g)
    \/ \E t \in Threads : ReadAndBranch(t)
    \/ \E t \in Threads : Finish(t)
    \/ \E g \in Gens, x \in ParseInputs : ParseId(g, x)
    \/ Tick

SpecService == InitService /\ [][NextService]_vars

\* the instance of InitOne after 4095 IDs in the millisecond ClockOrigin:
\* one more ID fits, the call after that one has to wait
InitFullMillis ==
    /\ status = [g \in Gens |-> IF g = 1 THEN "ok" ELSE "none"]
    /\ arg = [g \in Gens |-> IF g = 1 THEN 1 ELSE 0]
    /\ machine_id = [g \in Gens |-> IF g = 1 THEN 1 ELSE 0]
    /\ sequence = [g \in Gens |-> IF g = 1 THEN MAX_SEQUENCE - 1 ELSE 0]
    /\ last_timestamp = [g \in Gens |-> IF g = 1 THEN ClockOrigin ELSE MinusOne]
    /\ lock = [g \in Gens |-> 0]

\* threads that call generate_id, block on the lock, and run; the clock
\* never goes back
InitLive ==
    InitFullMillis /\ InitLocals /\ clock = 0 /\ recording = "off" /\ budget = MaxLiveCalls

NextLive ==
    \/ \E t \in Threads, g \in Gens : Call(t, g)
    \/ \E t \in Threads : Enter(t)
    \/ \E t \in Threads : ReadAndBranch(t)
    \/ \E t \in Threads : WaitPoll(t)
    \/ \E t \in Threads : Finish(t)
    \/ Tick

\* a thread that runs takes its next step; a thread blocked on the lock gets
\* it if the lock is free again and again (the lock is taken to be fair)
FairLive ==
    \A t \in Threads :
        /\ SF_vars(Enter(t))
        /\ WF_vars(ReadAndBranch(t))
        /\ WF_vars(WaitPoll(t))
        /\ WF_vars(Finish(t))

SpecLive == InitLive /\ [][NextLive]_vars /\ FairLive

\* threads that call generate_id and block on the lock, under any clock
InitBlocked ==
    InitFullMillis /\ InitCallers /\ recording = "off" /\ budget = MaxLiveCalls

NextBlocked ==
    \/ \E t \in Threads, g \in Gens : Call(t, g)
    \/ \E t \in Threads : Enter(t)
    \/ \E t \in Threads : ReadAndBranch(t)
    \/ \E t \in Threads : WaitPoll(t)
    \/ \E t \in Threads : Finish(t)
    \/ Tick
    \/ ClockBack

SpecBlocked == InitBlocked /\ [][NextBlocked]_vars

\* threads sharing an instance that has returned 4095 IDs in the millisecond
\* ClockOrigin, a few calls, a clock that never goes back, each thread's IDs
\* recorded
InitOrder == InitFullMillis /\ InitCallers /\ recording = "callers" /\ budget = MaxCalls

SpecOrder == InitOrder /\ [][NextMono]_vars

(***************************************************************************)
(* GET /ids/{count} of the HTTP service (main.py).  The handler is a        *)
(* coroutine without an await: the event loop runs it from its first line  *)
(* to its return, and it is the only caller of the shared instance.        *)
(***************************************************************************)
\* the thread of the event loop
EventLoop == 1

\* the instance the service shares (line 10)
Shared == 1

MaxIdsPerRequest == 1000

\* line 36: ge=1, le=1000
ValidCount(n) == n >= 1 /\ n <= MaxIdsPerRequest

\* one call too many
LoopCountOffByOne(n) == n + 1

\* line 42: range(count)
LoopCount(n) == n

CountInputs == {0} \cup (1..MaxBatch) \cup {MaxIdsPerRequest + 1}

\* calls of the request that have returned an ID, and calls it has made
BatchGot == Len(got[EventLoop])
BatchMade == LoopCount(req.count) - budget

\* the ids list of the response
BatchIds == [i \in 1..BatchGot |-> got[EventLoop][i][2]]

\* lines 35-42: a request arrives; a count out of range is rejected before
\* the handler body runs, else the list comprehension starts
BatchStart(n) ==
    /\ req = NoReq
    /\ resp.n < MaxRequests
    /\ pc[EventLoop] = "idle"
    /\ IF ValidCount(n)
       THEN /\ req' = [path |-> "ids", count |-> n, issued |-> issued[Shared]]
            /\ budget' = LoopCount(n)
            /\ got' = [got EXCEPT ![EventLoop] = <<>>]
            /\ UNCHANGED resp
       ELSE /\ resp' = [status |-> 422, ids |-> <<>>, detail |-> "count", n |-> resp.n + 1]
            /\ UNCHANGED <<req, budget, got>>
    /\ UNCHANGED <<cacheVars, svcVars, genVars, lock, clock, pc, cur, timestamp, seen, ret, lastId,
                   issued, ids, runs, stamps, parsed, recording>>

\* line 42: the next snowflake.generate_id() of the list comprehension
BatchCall ==
    /\ req.path = "ids"
    /\ BatchGot = BatchMade
    /\ Acquire(EventLoop, Shared)

\* lines 44-45: a call has raised; the handler answers 500 with the message
BatchFail ==
    /\ req.path = "ids"
    /\ pc[EventLoop] = "idle"
    /\ BatchGot < BatchMade
    /\ resp' = [status |-> 500, ids |-> <<>>, detail |-> ret.kind, n |-> resp.n + 1]
    /\ req' = NoReq
    /\ budget' = 0
    /\ UNCHANGED <<cacheVars, svcVars, genVars, lock, clock, pc, cur, timestamp, seen, ret, lastId,
                   issued, ids, runs, got, stamps, parsed, recording>>

\* line 43: the list is complete; the handler answers with it
BatchDone ==
    /\ req.path = "ids"
    /\ pc[EventLoop] = "idle"
    /\ budget = 0
    /\ BatchGot = BatchMade
    /\ resp' = [status |-> 200, ids |-> BatchIds, detail |-> "", n |-> resp.n + 1]
    /\ req' = NoReq
    /\ UNCHANGED <<cacheVars, svcVars, genVars, lock, clock, pc, cur, timestamp, seen, ret, lastId,
                   issued, ids, runs, got, stamps, parsed, recording, budget>>

\* the service, fresh or with 4095 IDs returned in the current millisecond,
\* handling a few GET /ids/{count} requests under any clock
InitBatch ==
    /\ InitOne \/ InitFullMillis
    /\ InitCallers /\ recording = "callers" /\ budget = 0

NextBatch ==
    \/ \E n \in CountInputs : BatchStart(n)
    \/ BatchCall
    \/ ReadAndBranch(EventLoop)
    \/ WaitPoll(EventLoop)
    \/ Finish(EventLoop)
    \/ BatchFail
    \/ BatchDone
    \/ Tick
    \/ ClockBack

SpecBatch == InitBatch /\ [][NextBatch]_vars

(***************************************************************************)
(* GET /id of the HTTP service (main.py, lines 26-33).                     *)
(***************************************************************************)
\* line 27: a request arrives
IdStart ==
    /\ req = NoReq
    /\ resp.n < MaxRequests
    /\ pc[EventLoop] = "idle"
    /\ req' = [path |-> "id", count |-> 1, issued |-> issued[Shared]]
    /\ budget' = 1
    /\ got' = [got EXCEPT ![EventLoop] = <<>>]
    /\ UNCHANGED <<cacheVars, svcVars, genVars, lock, clock, pc, cur, timestamp, seen, ret, lastId,
                   issued, ids, runs, stamps, parsed, recording, resp>>

\* line 30: snowflake.generate_id()
IdCall ==
    /\ req.path = "id"
    /\ Acquire(EventLoop, Shared)

\* the failure is answered with the ID returned last
IdFailAsOk ==
    /\ req.path = "id"
    /\ pc[EventLoop] = "idle"
    /\ budget = 0 /\ BatchGot = 0
    /\ resp' = [status |-> 200, ids |-> <<lastId[Shared]>>, detail |-> "",
                n |-> resp.n + 1]
    /\ req' = NoReq
    /\ UNCHANGED <<cacheVars, svcVars, genVars, lock, clock, pc, cur, timestamp, seen, ret, lastId,
                   issued, ids, runs, got, stamps, parsed, recording, budget>>

\* lines 32-33: the call has raised; the handler answers 500 with str(e)
IdFail ==
    /\ req.path = "id"
    /\ pc[EventLoop] = "idle"
    /\ budget = 0 /\ BatchGot = 0
    /\ resp' = [status |-> 500, ids |-> <<>>, detail |-> ret.kind, n |-> resp.n + 1]
    /\ req' = NoReq
    /\ UNCHANGED <<cacheVars, svcVars, genVars, lock, clock, pc, cur, timestamp, seen, ret, lastId,
                   issued, ids, runs, got, stamps, parsed, recording, budget>>

\* line 31: the call has returned; the handler answers with the ID
IdDone ==
    /\ req.path = "id"
    /\ pc[EventLoop] = "idle"
    /\ budget = 0 /\ BatchGot = 1
    /\ resp' = [status |-> 200, ids |-> BatchIds, detail |-> "", n |-> resp.n + 1]
    /\ req' = NoReq
    /\ UNCHANGED <<cacheVars, svcVars, genVars, lock, clock, pc, cur, timestamp, seen, ret, lastId,
                   issued, ids, runs, got, stamps, parsed, recording, budget>>

\* the service handling a few GET /id and GET /ids/{count} requests under any clock
NextHttp ==
    \/ IdStart
    \/ IdCall
    \/ IdFail
    \/ IdDone
    \/ \E n \in CountInputs : BatchStart(n)
    \/ BatchCall
    \/ BatchFail
    \/ BatchDone
    \/ ReadAndBranch(EventLoop)
    \/ WaitPoll(EventLoop)
    \/ Finish(EventLoop)
    \/ Tick
    \/ ClockBack

SpecHttp == InitBatch /\ [][NextHttp]_vars

\* the (timestamp << 22) | (machine_id << 12) | sequence layout of an ID
Compose(t, m, s) ==
    Or(Or(ShiftLeft(t, TIMESTAMP_SHIFT), ShiftLeft(FromInt(m), MACHINE_ID_SHIFT)),
       FromInt(s))

\* milliseconds since EPOCH: 0, 1, 1000, 2^22 - 1, 2^22, 2^41 - 1, 2^41, 2^44 - 1
TimeOffsets ==
    {FromInt(0), FromInt(1), FromInt(1000), <<0, 0, LIMB - 1>>, <<0, 1, 0>>,
     <<0, 524287, LIMB - 1>>, <<0, 524288, 0>>, <<0, LIMB - 1, LIMB - 1>>}

MachineIds == {0, 1, 512, MAX_MACHINE_ID}

Sequences == {0, 1, 2048, MAX_SEQUENCE}

\* parse_id alone, applied to composed IDs
InitParse == InitOne /\ InitCallers /\ clock = 0 /\ recording = "off" /\ budget = 0

NextParse ==
    \E g \in Gens, t \in TimeOffsets, m \in MachineIds, s \in Sequences :
        ParseId(g, Compose(t, m, s))

SpecParse == InitParse /\ [][NextParse]_vars

\* the consuming services with empty tables; the tables' unique constraints
\* are those of a schema that is not part of the source tree: either way
InitConsumers ==
    /\ InitOne /\ InitIdle /\ clock = 0 /\ recording = "off" /\ budget = 0
    /\ InitTables
    /\ constrained \in BOOLEAN
    /\ InitCache

\* requests of the three kinds that overlap at the await
NextConsumers ==
    \/ \E k \in Tasks \cap (1..MaxOverlap), email \in Emails : SignupCheck(k, email)
    \/ \E k \in Tasks \cap (1..MaxOverlap), u \in Users, h \in Handles : FollowCheck(k, u, h)
    \/ \E k \in Tasks \cap (1..MaxOverlap), u \in Users : TweetBegin(k, u)
    \/ \E k \in Tasks, o \in Outcomes : GetSnowflakeId(k, o)
    \/ \E k \in Tasks : SignupInsert(k)
    \/ \E k \in Tasks : FollowInsert(k)
    \/ \E k \in Tasks : TweetInsert(k)
    \/ \E u \in Users, f \in Users : Unfollow(u, f)

SpecConsumers == InitConsumers /\ [][NextConsumers]_vars

\* coroutine k gets the next request once every request before it is answered
InTurn(k) == \A j \in Tasks : j < k => task[j].pc = "done"

\* a follow request that overlaps with no other
FollowInTurn(k, follower, handle) == InTurn(k) /\ FollowCheck(k, follower, handle)

\* follow requests one after the other, and unfollows
NextFollow ==
    \/ \E k \in Tasks, u \in Users, h \in Handles : FollowInTurn(k, u, h)
    \/ \E k \in Tasks, o \in Outcomes : GetSnowflakeId(k, o)
    \/ \E k \in Tasks : FollowInsert(k)
    \/ \E u \in Users, f \in Users : Unfollow(u, f)

SpecFollow == InitConsumers /\ [][NextFollow]_vars

\* the cache service from its start, a few requests
InitCacheService ==
    InitOne /\ InitLocals /\ clock = 0 /\ recording = "off" /\ budget = 0

NextCacheService ==
    \/ \E d \in Datasets, k \in CacheKeys, v \in CacheValues : save_endpoint(d, k, v)
    \/ \E d \in Datasets, k \in CacheKeys : read_endpoint(d, k)
    \/ \E d \in Datasets, k \in CacheKeys, m \in PopMissing : delete_endpoint(d, k, m)

SpecCacheService == InitCacheService /\ [][NextCacheService]_vars

(***************************************************************************)
(* Properties.                                                             *)
(***************************************************************************)
\* thread t is inside generate_id, between taking and releasing the lock
InCritical(t) == pc[t] # "idle"

\* this step is the return of an ID to thread t
Returns(t) == pc[t] = "fin" /\ pc'[t] = "idle"

\* this step is thread t's first clock read and what follows from it
Reads(t) == pc[t] = "read" /\ pc'[t] # "read"

\* this step is the response to the GET /ids/{count} request being handled
Responds == req # NoReq /\ req' = NoReq

\* a generate_id call of the request being handled has raised
FailurePending ==
    /\ req # NoReq
    /\ pc[EventLoop] = "idle"
    /\ BatchGot < req.count - budget

\* the IDs of a list are strictly increasing in list order
Increasing(l) == \A i \in 1..(Len(l) - 1) : Less(l[i], l[i + 1])

\* the instance holds what its last ID encodes
StateMatches(id) ==
    /\ lastId[Shared] = id
    /\ last_timestamp[Shared] = ParseTimestamp(id)
    /\ sequence[Shared] = ParseSequence(id)

\* this step is a clock read of thread t inside _wait_next_millis
Polls(t) == pc[t] = "wait" /\ seen'[t] # seen[t]

\* C1: under a clock that never goes back, every ID an instance returns is
\* strictly greater than the ID it returned to the previous call.
C1_StrictlyIncreasing ==
    [][\A t \in Threads :
         (Returns(t) /\ lastId[cur[t]] # NoId) =>
             /\ ret'.kind = "id"
             /\ lastId'[cur[t]] = ret'.id
             /\ Less(lastId[cur[t]], ret'.id)]_vars

\* an ID was returned by a call that found an earlier ID's timestamp in place
C1_Witness ==
    /\ ret.kind = "id"
    /\ ret.before[2] # MinusOne
    /\ lastId[ret.gen] = ret.id

\* C2: the IDs one instance returns are pairwise distinct, also over a burst
\* of more than 4096 calls in one millisecond that rolls over to the next.
C2_AllDistinct == \A g \in Gens : Size(runs[g]) = issued[g]

\* more than 4096 IDs were returned and the last one came out of the wait
C2_Witness ==
    /\ issued[1] > MAX_SEQUENCE + 1
    /\ ret.kind = "id" /\ ret.waited
    /\ Member(runs[1], ret.id)

RECURSIVE GotCount(_)
GotCount(n) == IF n = 0 THEN 0 ELSE Len(got[n]) + GotCount(n - 1)

GotBy(t) == {got[t][i] : i \in 1..Len(got[t])}

\* C3: threads calling generate_id on one shared instance never obtain the
\* same ID: together they hold as many distinct IDs as calls have returned.
C3_NoDuplicateAcrossThreads ==
    /\ Cardinality(UNION {GotBy(t) : t \in Threads}) = GotCount(NumThreads)
    /\ \A t, u \in Threads : t # u => GotBy(t) \cap GotBy(u) = {}

\* two threads each obtained an ID of the same millisecond
C3_Witness ==
    \E t, u \in Threads :
        /\ t # u /\ Len(got[t]) > 0 /\ Len(got[u]) > 0
        /\ ParseTimestamp(got[t][1][2]) = ParseTimestamp(got[u][1][2])
        /\ GotCount(NumThreads) = MaxCalls

\* C4: at most one thread at a time is inside the critical section of an
\* instance, it holds the lock, and while a caller spins in the overflow wait
\* no other thread enters and sequence and last_timestamp stay as they are.
C4_MutualExclusion ==
    /\ [](\A t \in Threads :
            InCritical(t) =>
                /\ lock[cur[t]] = t
                /\ \A u \in Threads \ {t} : ~(InCritical(u) /\ cur[u] = cur[t]))
    /\ [][\A t \in Threads :
            pc[t] = "wait" =>
                /\ lock'[cur[t]] = t
                /\ sequence'[cur[t]] = sequence[cur[t]]
                /\ last_timestamp'[cur[t]] = last_timestamp[cur[t]]
                /\ \A u \in Threads \ {t} : pc'[u] = "idle"]_vars

\* a caller has spun in the overflow wait, holding the lock, the other threads outside
C4_Witness ==
    \E t \in Threads :
        /\ pc[t] = "wait" /\ seen[t].waited
        /\ lock[cur[t]] = t
        /\ \A u \in Threads \ {t} : pc[u] = "idle"

\* C5: IDs of two instances with different machine ids never coincide, and
\* every ID decodes to the machine id its instance was constructed with.
C5_NodesDisjoint ==
    /\ \A g, h \in Gens :
          (status[g] = "ok" /\ status[h] = "ok" /\ machine_id[g] # machine_id[h])
              => ids[g] \cap ids[h] = {}
    /\ \A g \in Gens : \A id \in ids[g] : ParseMachineId(id) = arg[g]

\* two instances with different machine ids returned IDs at the same
\* timestamp with the same sequence
C5_Witness ==
    \E g, h \in Gens :
        /\ machine_id[g] # machine_id[h]
        /\ lastId[g] # NoId /\ lastId[h] # NoId
        /\ last_timestamp[g] = last_timestamp[h]
        /\ sequence[g] = sequence[h]
        /\ ParseTimestamp(lastId[g]) = ParseTimestamp(lastId[h])
        /\ ParseSequence(lastId[g]) = ParseSequence(lastId[h])

\* C6: a call whose first clock reading is below last_timestamp fails with
\* the clock error, returns no ID and leaves last_timestamp and sequence as
\* they were when the call started.
C6_RegressionFails ==
    [][\A t \in Threads :
         /\ (pc[t] = "idle" /\ pc'[t] # "idle") =>
                (sequence' = sequence /\ last_timestamp' = last_timestamp)
         /\ (Reads(t) /\ Less(CurrentTimestamp, last_timestamp[cur[t]])) =>
                /\ pc'[t] = "idle"
                /\ ret'.kind = "clock_backwards" /\ ret'.id = NoId
                /\ sequence' = sequence
                /\ last_timestamp' = last_timestamp
                /\ lastId' = lastId]_vars

\* a call has failed on a clock behind last_timestamp
C6_Witness ==
    /\ ret.kind = "clock_backwards"
    /\ Less(CurrentTimestamp, last_timestamp[ret.gen])
    /\ ret.before = <<sequence[ret.gen], last_timestamp[ret.gen]>>
    /\ sequence[ret.gen] > 0

\* C7: construction succeeds exactly for machine ids in [0, 1023], leaving
\* machine_id as given, sequence 0 and last_timestamp -1; otherwise it fails
\* and there is no instance to call.
C7_Construction ==
    /\ [][\A g \in Gens :
            (status[g] = "none" /\ status'[g] # "none") =>
                IF arg'[g] \in 0..1023
                THEN /\ status'[g] = "ok"
                     /\ machine_id'[g] = arg'[g]
                     /\ sequence'[g] = 0
                     /\ last_timestamp'[g] = FromInt(-1)
                ELSE status'[g] = "invalid"]_vars
    /\ [](\A g \in Gens :
            status[g] # "ok" =>
                /\ ids[g] = {} /\ lastId[g] = NoId
                /\ \A t \in Threads : ~(InCritical(t) /\ cur[t] = g))

\* one instance was constructed with 1023 and one construction with 1024 failed
C7_Witness ==
    \E g, h \in Gens :
        /\ status[g] = "ok" /\ arg[g] = 1023 /\ machine_id[g] = 1023
        /\ status[h] = "invalid" /\ arg[h] = 1024

\* C8: a call that finds the clock equal to last_timestamp and sequence 4095
\* wraps sequence to 0 and waits; it leaves the wait only on a reading above
\* last_timestamp, and returns an ID with that timestamp and sequence 0,
\* above the ID returned before.
C8_OverflowWaits ==
    [][\A t \in Threads :
         LET g == cur[t] IN
         /\ (Reads(t) /\ CurrentTimestamp = last_timestamp[g] /\ sequence[g] = 4095) =>
                (sequence'[g] = 0 /\ pc'[t] = "wait" /\ ret' = ret)
         /\ (pc[t] = "wait" /\ pc'[t] # "wait") =>
                /\ Less(last_timestamp[g], CurrentTimestamp)
                /\ timestamp'[t] = CurrentTimestamp
                /\ pc'[t] = "fin"
         /\ (Returns(t) /\ seen[t].case = "eq" /\ seen[t].before[1] = 4095) =>
                /\ seen[t].waited
                /\ Less(seen[t].before[2], timestamp[t])
                /\ ret'.kind = "id"
                /\ ParseTimestamp(ret'.id) = timestamp[t]
                /\ ParseSequence(ret'.id) = 0
                /\ last_timestamp'[g] = timestamp[t]
                /\ Less(lastId[g], ret'.id)]_vars

\* an ID was returned by a call that wrapped the sequence and waited
C8_Witness ==
    /\ ret.kind = "id" /\ ret.waited
    /\ ret.case = "eq" /\ ret.before[1] = 4095
    /\ ParseSequence(ret.id) = 0
    /\ Less(ret.before[2], ParseTimestamp(ret.id))

\* C9: a call that finds the clock equal to last_timestamp and sequence
\* s < 4095 returns an ID with the timestamp of the previous ID and sequence s + 1.
C9_SameMillisIncrements ==
    [][\A t \in Threads :
         LET g == cur[t] IN
         /\ (Reads(t) /\ CurrentTimestamp = last_timestamp[g] /\ sequence[g] < 4095) =>
                (sequence'[g] = sequence[g] + 1 /\ pc'[t] = "fin")
         /\ (Returns(t) /\ seen[t].case = "eq" /\ seen[t].before[1] < 4095) =>
                /\ ret'.kind = "id"
                /\ ParseTimestamp(ret'.id) = ParseTimestamp(lastId[g])
                /\ ParseSequence(ret'.id) = seen[t].before[1] + 1]_vars

\* an ID with sequence 4095 was returned in the millisecond of its predecessor
C9_Witness ==
    /\ ret.kind = "id" /\ ret.case = "eq"
    /\ ret.before[1] = 4094
    /\ ParseSequence(ret.id) = 4095
    /\ ParseTimestamp(ret.id) = ret.before[2]

\* C10: a call that finds the clock above last_timestamp, the first call
\* included, resets sequence to 0 and returns an ID with sequence 0 and a
\* timestamp above that of the previous ID.
C10_NewMillisResets ==
    [][\A t \in Threads :
         LET g == cur[t] IN
         /\ (Reads(t) /\ Less(last_timestamp[g], CurrentTimestamp)) =>
                (sequence'[g] = 0 /\ pc'[t] = "fin")
         /\ (Returns(t) /\ seen[t].case = "gt") =>
                /\ ret'.kind = "id"
                /\ ParseSequence(ret'.id) = 0
                /\ lastId[g] # NoId =>
                       Less(ParseTimestamp(lastId[g]), ParseTimestamp(ret'.id))]_vars

\* an ID was returned in a new millisecond by an instance whose sequence was above 0
C10_Witness ==
    /\ ret.kind = "id" /\ ret.case = "gt"
    /\ ret.before[1] > 0 /\ ret.before[2] # MinusOne
    /\ ParseSequence(ret.id) = 0

\* C11: parse_id of every ID generate_id returns gives the machine id of the
\* instance, the instance's sequence at the return, within [0, 4095], and the
\* clock reading the call used, a reading taken during the call.
C11_ParseRecovers ==
    [][\A t \in Threads :
         LET g == cur[t] IN
         /\ (pc[t] \in {"read", "wait"} /\ pc'[t] = "fin") =>
                timestamp'[t] = CurrentTimestamp
         /\ Returns(t) =>
                /\ ret'.kind = "id"
                /\ ParseMachineId(ret'.id) = arg[g]
                /\ ParseSequence(ret'.id) = sequence'[g]
                /\ ParseSequence(ret'.id) \in 0..4095
                /\ ParseTimestamp(ret'.id) = timestamp[t]]_vars

\* an ID that came out of the overflow wait parses to what the instance holds
C11_Witness ==
    /\ ret.kind = "id" /\ ret.waited
    /\ ParseMachineId(ret.id) = arg[ret.gen]
    /\ ParseSequence(ret.id) = sequence[ret.gen]
    /\ ParseTimestamp(ret.id) = last_timestamp[ret.gen]
    /\ Less(ret.before[2], ParseTimestamp(ret.id))

\* C12: for every t >= 0, m in [0, 1023] and s in [0, 4095] the three fields of
\* (t << 22) | (m << 12) | s do not overlap, and parse_id returns timestamp
\* EPOCH + t, machine_id m and sequence s; t = 1000, m = 0, s = 0 parses to
\* timestamp 1735689601000.
C12_FieldsRecovered ==
    /\ \A t \in TimeOffsets, m \in MachineIds, s \in Sequences :
          LET hi == ShiftLeft(t, TIMESTAMP_SHIFT)
              mid == ShiftLeft(FromInt(m), MACHINE_ID_SHIFT)
              lo == FromInt(s)
          IN  /\ And(hi, mid) = FromInt(0)
              /\ And(hi, lo) = FromInt(0)
              /\ And(mid, lo) = FromInt(0)
              /\ Compose(t, m, s) = Add(Add(hi, mid), lo)
              /\ parsed.id = Compose(t, m, s) =>
                    /\ parsed.timestamp = Add(EPOCH, t)
                    /\ parsed.machine_id = m
                    /\ parsed.sequence = s
    \* 1735689601000 = 413820 * 2^22 + 2719720
    /\ parsed.id = Compose(FromInt(1000), 0, 0) =>
          parsed.timestamp = <<0, 413820, 2719720>>

\* 2^63 - 1, all three fields full, has been parsed back into them
C12_Witness ==
    /\ parsed.id = <<524287, LIMB - 1, LIMB - 1>>
    /\ parsed.id = Compose(<<0, 524287, LIMB - 1>>, MAX_MACHINE_ID, MAX_SEQUENCE)
    /\ parsed.timestamp = Add(EPOCH, <<0, 524287, LIMB - 1>>)
    /\ parsed.machine_id = MAX_MACHINE_ID
    /\ parsed.sequence = MAX_SEQUENCE

\* C13: every ID generate_id returns is a positive integer below 2^63, for
\* every clock reading the generator accepts.
C13_PositiveBelow63Bits ==
    ret.kind = "id" =>
        /\ Less(FromInt(0), ret.id)
        /\ Less(ret.id, <<524288, 0, 0>>)

\* C14: IDs are ordered by time across instances: an ID generated from an
\* earlier timestamp is smaller than an ID generated from a later one,
\* whatever the machine ids and sequences of the two.
C14_TimeOrdered ==
    \A x, y \in stamps :
        Less(x[1], y[1]) =>
            /\ Less(x[2], y[2])
            /\ Less(Encode(x[1], MAX_MACHINE_ID, MAX_SEQUENCE), Encode(y[1], 0, 0))

\* the instance with the largest machine id returned an ID in an earlier
\* millisecond than the instance with machine id 0
C14_Witness ==
    \E x, y \in stamps :
        /\ Less(x[1], y[1])
        /\ ParseMachineId(x[2]) = MAX_MACHINE_ID
        /\ ParseMachineId(y[2]) = 0
        /\ ParseTimestamp(x[2]) = x[1]
        /\ ParseTimestamp(y[2]) = y[1]

\* C15: parse_id is a pure, total decode. For every 64-bit input it returns
\* its result while a generate_id call holds the lock, so it can run between
\* the steps of that call; the fields it returns put together again are the
\* input; and the call leaves machine_id, sequence, last_timestamp and the
\* lock as they were.
C15_ParsePure ==
    /\ [](\A g \in Gens : lock[g] # 0 =>
            \A x \in WordInputs : ENABLED ParseId(g, x))
    /\ [][parsed' # parsed =>
            /\ UNCHANGED <<machine_id, sequence, last_timestamp, lock, pc>>
            /\ parsed'.machine_id \in 0..MAX_MACHINE_ID
            /\ parsed'.sequence \in 0..MAX_SEQUENCE
            /\ Compose(Sub(parsed'.timestamp, EPOCH), parsed'.machine_id,
                       parsed'.sequence) = parsed'.id]_vars

\* 2^64 - 1 was parsed while a generate_id call held the lock
C15_Witness ==
    /\ parsed.held # 0
    /\ parsed.id = <<1048575, LIMB - 1, LIMB - 1>>
    /\ parsed.timestamp = Add(EPOCH, <<0, 1048575, LIMB - 1>>)
    /\ parsed.machine_id = MAX_MACHINE_ID
    /\ parsed.sequence = MAX_SEQUENCE

\* C16: in every reachable state machine_id is the value the instance was
\* constructed with, in [0, 1023], and sequence is in [0, 4095]; no step of a
\* generate_id call, successful or failed, changes machine_id.
C16_FieldsInRange ==
    /\ [](\A g \in Gens :
            status[g] = "ok" =>
                /\ machine_id[g] = arg[g]
                /\ machine_id[g] \in 0..1023
                /\ sequence[g] \in 0..4095)
    /\ [][machine_id' = machine_id]_vars

\* the sequence is at its maximum, IDs were returned and the last call failed
C16_Witness ==
    /\ status[1] = "ok" /\ machine_id[1] = arg[1]
    /\ sequence[1] = 4095
    /\ lastId[1] # NoId
    /\ ret.kind = "clock_backwards"

\* C17: whenever a clock reading taken inside generate_id is behind
\* last_timestamp, be it the first read of the call or a read of the overflow
\* wait, the call ends with the clock error.
C17_RegressionSurfaces ==
    [][\A t \in Threads :
         ((Reads(t) \/ Polls(t)) /\ Less(CurrentTimestamp, last_timestamp[cur[t]])) =>
             (pc'[t] = "idle" /\ ret'.kind = "clock_backwards")]_vars

\* C19: after every successful generate_id call last_timestamp is the
\* timestamp encoded in the ID just returned; no other step changes
\* last_timestamp, and it never decreases.
C19_LastTimestampTracks ==
    [][\A g \in Gens :
         /\ (\E t \in Threads : Returns(t) /\ cur[t] = g) =>
                /\ ret'.kind = "id" /\ ret'.gen = g
                /\ last_timestamp'[g] = ParseTimestamp(ret'.id)
         /\ ~(\E t \in Threads : Returns(t) /\ cur[t] = g) =>
                last_timestamp'[g] = last_timestamp[g]
         /\ Leq(last_timestamp[g], last_timestamp'[g])]_vars

\* the clock is behind last_timestamp and a call has failed on it:
\* last_timestamp is still the timestamp of the last ID returned
C19_Witness ==
    /\ lastId[1] # NoId
    /\ last_timestamp[1] = ParseTimestamp(lastId[1])
    /\ Less(CurrentTimestamp, last_timestamp[1])
    /\ ret.kind = "clock_backwards" /\ ret.before[2] = last_timestamp[1]

\* C18: if the clock, whenever a call waits, eventually reports a
\* millisecond after last_timestamp, and the lock is fair, every generate_id
\* call eventually completes and has released the lock; outside the wait for
\* the lock, the overflow wait is the only place where a call can be held up:
\* its first read and its return can always be taken.
C18_CallsComplete ==
    /\ (\A t \in Threads :
           [](pc[t] = "wait" => <>Less(last_timestamp[cur[t]], CurrentTimestamp)))
         => (\A t \in Threads :
               (pc[t] # "idle") ~> (pc[t] = "idle" /\ lock[cur[t]] # t))
    /\ [](\A t \in Threads :
            /\ pc[t] = "read" => ENABLED <<ReadAndBranch(t)>>_vars
            /\ pc[t] = "fin" => ENABLED <<Finish(t)>>_vars)

\* a call that had to wait has returned its ID and every call is over
C18_Witness ==
    /\ ret.kind = "id" /\ ret.waited
    /\ Less(ret.before[2], last_timestamp[ret.gen])
    /\ \A t \in Threads : pc[t] = "idle"
    /\ \A g \in Gens : lock[g] = 0

\* C20 as stated: GET /ids/{count} with 1 <= count <= 1000 returns count IDs,
\* pairwise distinct and strictly increasing in list order, and leaves the
\* generator as count generate_id calls leave it.
C20_BatchReturnsCount ==
    [][Responds =>
          /\ resp'.status = 200
          /\ Len(resp'.ids) = req.count
          /\ Increasing(resp'.ids)
          /\ issued[Shared] = req.issued + req.count
          /\ StateMatches(resp'.ids[req.count])]_vars

\* C20, amended: GET /ids/{count} with 1 <= count <= 1000 makes generate_id
\* calls one after the other until count have succeeded or one has failed,
\* and makes no call after a failure. If all succeed it returns their count
\* IDs in call order, pairwise distinct and strictly increasing, and the
\* generator is as count successful calls leave it. If one fails it answers
\* 500 with no ID, the generator being as the successful calls before the
\* failure left it.
C20_BatchRepeatsUntilFailure ==
    [][/\ (req # NoReq /\ pc[EventLoop] = "idle" /\ pc'[EventLoop] # "idle") =>
             (BatchGot = BatchMade /\ BatchMade < req.count)
       /\ Responds =>
             /\ resp'.ids = IF resp'.status = 200 THEN BatchIds ELSE <<>>
             /\ issued[Shared] = req.issued + BatchGot
             /\ BatchGot > 0 => StateMatches(got[EventLoop][BatchGot][2])
             /\ Increasing(BatchIds)
             /\ \/ /\ resp'.status = 200
                   /\ BatchMade = req.count
                   /\ Len(resp'.ids) = req.count
                \/ /\ resp'.status = 500
                   /\ ret.kind = "clock_backwards"
                   /\ BatchMade = BatchGot + 1
                   /\ BatchMade <= req.count
                   /\ <<sequence[Shared], last_timestamp[Shared]>> = ret.before]_vars

\* a second request has been answered with a list of several IDs
C20_Witness ==
    /\ resp.status = 200 /\ resp.n = 2
    /\ Len(resp.ids) >= 2
    /\ resp.ids[Len(resp.ids)] = lastId[Shared]

\* C21: the ID service neither recovers from nor retries a clock-regression
\* failure of generate_id: GET /id and GET /ids/{count} then answer 500 with
\* the text of the failure and no ID, no further call is made, and the
\* generator is in the state the failed call left.
C21_FailureAnswered500 ==
    [][/\ (req # NoReq /\ pc[EventLoop] = "read" /\ pc'[EventLoop] = "idle") =>
             /\ ret'.kind = "clock_backwards"
             /\ FailurePending'
             /\ <<sequence, last_timestamp>>' = <<sequence, last_timestamp>>
       /\ FailurePending =>
             /\ ret.kind = "clock_backwards"
             /\ pc'[EventLoop] = "idle"
             /\ genVars' = genVars /\ lastId' = lastId /\ issued' = issued
             /\ <<sequence[Shared], last_timestamp[Shared]>> = ret.before
             /\ req' # req =>
                   /\ req' = NoReq
                   /\ resp'.status = 500
                   /\ resp'.detail = "clock_backwards"
                   /\ resp'.ids = <<>>
       /\ (Responds /\ resp'.status = 200) =>
             (~FailurePending /\ ret.kind = "id" /\ Len(resp'.ids) = req.count)]_vars

\* a GET /id request was answered 500 by an instance that had returned IDs
C21_Witness ==
    /\ resp.status = 500 /\ resp.detail = "clock_backwards" /\ resp.ids = <<>>
    /\ req = NoReq /\ got[EventLoop] = <<>>
    /\ ret.kind = "clock_backwards"
    /\ lastId[Shared] # NoId
    /\ Less(CurrentTimestamp, last_timestamp[Shared])

\* C22: from a freshly constructed generator on, the IDs issued for one
\* timestamp carry the sequences 0, 1, 2, ... in issue order without a gap,
\* so at most 4096 IDs share a (timestamp, machine id), and a call is in the
\* overflow wait only when the 4096th ID of the millisecond it read has been
\* issued. (An interval of runs grows at its upper end only: it is the IDs of
\* one timestamp in issue order.)
C22_SequencesFromZero ==
    \A g \in Gens :
        /\ \A iv \in runs[g] :
              /\ ParseSequence(iv[1]) = 0
              /\ ParseTimestamp(iv[1]) = ParseTimestamp(iv[2])
              /\ ParseMachineId(iv[1]) = ParseMachineId(iv[2])
              /\ ToInt(Sub(iv[2], iv[1])) = ParseSequence(iv[2])
              /\ ParseSequence(iv[2]) <= 4095
        /\ \A iv, jv \in runs[g] :
              iv # jv => ParseTimestamp(iv[1]) # ParseTimestamp(jv[1])
        /\ \A t \in Threads :
              (pc[t] = "wait" /\ cur[t] = g) =>
                  /\ Member(runs[g], Encode(last_timestamp[g], machine_id[g], 4095))
                  /\ seen[t].before = <<4095, last_timestamp[g]>>

\* a millisecond has its 4096 IDs and the next one has begun at sequence 0
C22_Witness ==
    \E iv, jv \in runs[1] :
        /\ ParseSequence(iv[1]) = 0 /\ ParseSequence(iv[2]) = 4095
        /\ ParseTimestamp(jv[1]) = Add(ParseTimestamp(iv[1]), FromInt(1))
        /\ ParseSequence(jv[1]) = 0 /\ ParseSequence(jv[2]) > 0

\* C23: with concurrent callers on one instance and a clock that never goes
\* back, IDs increase in the order in which the callers took the lock: while
\* a caller is in its critical section no other caller obtains an ID, and the
\* ID it returns is greater than every ID any caller obtained before, that
\* is, than every ID of an earlier critical section.
C23_OrderedByLockOrder ==
    [][\A t \in Threads :
         /\ InCritical(t) =>
                \A u \in Threads \ {t} : cur[u] = cur[t] => got'[u] = got[u]
         /\ Returns(t) =>
                /\ got'[t] = Append(got[t], <<cur[t], ret'.id>>)
                /\ \A u \in Threads : \A p \in GotBy(u) :
                       p[1] = cur[t] => Less(p[2], ret'.id)]_vars

\* both threads obtained IDs, and the last ID came out of the overflow wait,
\* into which its caller went after the other thread's critical section
C23_Witness ==
    \E t, u \in Threads :
        /\ t # u /\ Len(got[t]) > 0 /\ Len(got[u]) > 0
        /\ ret.kind = "id" /\ ret.waited
        /\ got[t][Len(got[t])] = <<ret.gen, ret.id>>
        /\ ParseSequence(got[u][Len(got[u])][2]) = 4095

\* C24: a generate_id call that fails on clock regression fails at its one
\* and only clock read: the failing step is the first read of the call, the
\* call has not waited, re-read or stored a timestamp, and it ends there,
\* releasing the lock; a call that is in the overflow wait does not fail.
C24_FailsAtFirstRead ==
    [][\A t \in Threads :
         /\ (pc[t] \in {"read", "wait"} /\ pc'[t] = "idle") =>
                /\ pc[t] = "read"
                /\ Less(CurrentTimestamp, last_timestamp[cur[t]])
                /\ seen[t] = NoSeen /\ timestamp[t] = MinusOne
                /\ ret'.kind = "clock_backwards" /\ ~ret'.waited
                /\ clock' = clock
                /\ lock'[cur[t]] = 0
         /\ (pc[t] = "wait") => pc'[t] \in {"wait", "fin"}
         /\ (pc[t] = "read" /\ Less(CurrentTimestamp, last_timestamp[cur[t]])) =>
                pc'[t] \in {"read", "idle"}]_vars

\* a call has failed, no caller is left inside, the instance kept its sequence
C24_Witness ==
    /\ ret.kind = "clock_backwards" /\ ret.case = "lt" /\ ~ret.waited
    /\ lock[ret.gen] = 0
    /\ \A t \in Threads : pc[t] = "idle" /\ timestamp[t] = MinusOne
    /\ sequence[ret.gen] = ret.before[1]
    /\ lastId[ret.gen] # NoId

\* C25: whatever the clock does, also when it goes back between calls or
\* while a caller waits for the next millisecond, every ID an instance returns
\* is greater than the ID of its previous successful call, its (timestamp,
\* sequence) pair is lexicographically greater, and a failed call returns no
\* ID and leaves the instance and its last ID as they were.
C25_IncreasingUnderAnyClock ==
    [][\A t \in Threads :
         /\ (Returns(t) /\ lastId[cur[t]] # NoId) =>
                LET old == lastId[cur[t]]
                    new == ret'.id
                IN  /\ ret'.kind = "id" /\ lastId'[cur[t]] = new
                    /\ Less(old, new)
                    /\ \/ Less(ParseTimestamp(old), ParseTimestamp(new))
                       \/ /\ ParseTimestamp(old) = ParseTimestamp(new)
                          /\ ParseSequence(old) < ParseSequence(new)
                    /\ ParseTimestamp(new) = last_timestamp'[cur[t]]
                    /\ ParseSequence(new) = sequence'[cur[t]]
         /\ (pc[t] \in {"read", "wait"} /\ pc'[t] = "idle") =>
                /\ ret'.kind # "id" /\ ret'.id = NoId
                /\ lastId' = lastId /\ issued' = issued /\ ids' = ids
                /\ genVars' = genVars]_vars

\* an ID came out of the overflow wait after an earlier ID, and the clock has
\* since gone back behind the instance
C25_Witness ==
    /\ ret.kind = "id" /\ ret.waited
    /\ ret.before[2] # MinusOne
    /\ lastId[ret.gen] = ret.id
    /\ Less(CurrentTimestamp, last_timestamp[ret.gen])

\* thread t is past the with statement of a generate_id call on instance g
Inside(t, g) == cur[t] = g /\ pc[t] \in {"read", "wait", "fin"}

\* C26: the lock of an instance is free whenever no generate_id call on it is
\* past the with statement; every step that ends a call, by return or by the
\* clock exception, frees the lock; and a caller blocked on the lock of an
\* instance nobody is inside can enter, also right after a failed call.
C26_LockReleasedOnEveryExit ==
    /\ [](\A g \in Gens :
            /\ (\A t \in Threads : ~Inside(t, g)) => lock[g] = 0
            /\ \A t \in Threads :
                  (pc[t] = "acquire" /\ cur[t] = g /\ \A u \in Threads : ~Inside(u, g))
                      => ENABLED <<Enter(t)>>_vars)
    /\ [][\A t \in Threads :
            (Inside(t, cur[t]) /\ pc'[t] = "idle") =>
                /\ lock[cur[t]] = t
                /\ lock'[cur[t]] = 0
                /\ ret'.kind \in {"id", "clock_backwards"}
                /\ ret'.gen = cur[t]]_vars

\* after a call failed on the clock, the next caller has taken the lock of
\* the same instance, with the clock still behind
C26_Witness ==
    /\ ret.kind = "clock_backwards"
    /\ Less(CurrentTimestamp, last_timestamp[ret.gen])
    /\ \E t \in Threads :
          /\ pc[t] = "read" /\ cur[t] = ret.gen /\ lock[ret.gen] = t
          /\ \A u \in Threads \ {t} : pc[u] = "idle"

\* C27: a failure on clock regression is not sticky.  While the last call
\* that ended on an instance has failed and nobody is inside, sequence and
\* last_timestamp are what that call found; a call whose first reading is at
\* or after last_timestamp passes the check whatever happened before; from
\* there on it can only end by returning an ID; and the ID of a call that
\* follows failed calls is greater than the last ID issued before them.
C27_FailureNotSticky ==
    /\ [](ret.kind = "clock_backwards" /\ (\A t \in Threads : ~Inside(t, ret.gen))
            => /\ <<sequence[ret.gen], last_timestamp[ret.gen]>> = ret.before
               /\ lastId[ret.gen] # NoId
               /\ ParseTimestamp(lastId[ret.gen]) = last_timestamp[ret.gen]
               /\ ParseSequence(lastId[ret.gen]) = sequence[ret.gen])
    /\ [][\A t \in Threads :
            /\ (Reads(t) /\ Leq(last_timestamp[cur[t]], CurrentTimestamp)) =>
                   /\ pc'[t] \in {"wait", "fin"}
                   /\ ret' = ret
                   /\ lock'[cur[t]] = t
            /\ (pc[t] \in {"wait", "fin"} /\ pc'[t] = "idle") =>
                   /\ Returns(t)
                   /\ ret'.kind = "id"
            /\ (Returns(t) /\ ret.kind = "clock_backwards" /\ ret.gen = cur[t]) =>
                   /\ Less(lastId[cur[t]], ret'.id)
                   /\ Leq(ret.before[2], ParseTimestamp(ret'.id))]_vars

\* the last call that ended has failed, and the call after it has read a time
\* at or after last_timestamp and is about to return its ID
C27_Witness ==
    /\ ret.kind = "clock_backwards"
    /\ \E t \in Threads :
          /\ pc[t] = "fin" /\ cur[t] = ret.gen
          /\ Leq(ret.before[2], timestamp[t])
          /\ seen[t].before[2] = ret.before[2]

\* this step is coroutine k's return from `await get_snowflake_id()`
Resumes(k) == task[k].pc = "resume" /\ task'[k].pc = "done"

\* the rows of the three tables
Tables == <<accounts, relationships, tweets>>

\* C28: when the ID request of a signup, a follow or a tweet fails, with 503
\* on a transport error and 500 otherwise, the handler inserts nothing and
\* answers with that status; the request itself writes nothing; and a row is
\* only ever inserted by a handler that has obtained an ID, with that ID.
C28_NoInsertWithoutId ==
    [][/\ \A k \in Tasks :
            /\ (task[k].pc = "await" /\ task'[k].pc # "await") =>
                   /\ task'[k].pc = "resume"
                   /\ Tables' = Tables
                   /\ \/ task'[k].err = 0 /\ task'[k].id = asked' /\ asked' > 0
                      \/ /\ task'[k].id = 0
                         /\ task'[k].err \in {HTTP_503_SERVICE_UNAVAILABLE,
                                              HTTP_500_INTERNAL_SERVER_ERROR}
            /\ (Resumes(k) /\ task[k].err # 0) =>
                   /\ task'[k].status = task[k].err
                   /\ Tables' = Tables
       /\ (accounts' \ accounts) \cup (tweets' \ tweets) # {}
            \/ {r.id : r \in relationships'} # {r.id : r \in relationships} =>
               \E k \in Tasks :
                   /\ Resumes(k) /\ task[k].err = 0 /\ task[k].id \in 1..asked
                   /\ task'[k].status = HTTP_201_CREATED
                   /\ accounts' \ accounts \subseteq
                          {[user_id |-> task[k].id, email |-> task[k].email]}
                   /\ tweets' \ tweets \subseteq
                          {[tweet_id |-> task[k].id, user_id |-> task[k].user]}
                   /\ relationships' \ relationships \subseteq
                          {[id |-> task[k].id, follower |-> task[k].user,
                            followee |-> task[k].followee, deleted |-> FALSE]}]_vars

\* one request was answered 503 and another 500 after their ID requests
\* failed, and the tables are empty
C28_Witness ==
    /\ Tables = <<{}, {}, {}>>
    /\ \E k \in Tasks, j \in Tasks :
          /\ task[k].pc = "done" /\ task[k].op = "signup"
          /\ task[k].err = HTTP_503_SERVICE_UNAVAILABLE /\ task[k].status = task[k].err
          /\ task[j].pc = "done" /\ task[j].op \in {"follow", "tweet"}
          /\ task[j].err = HTTP_500_INTERNAL_SERVER_ERROR /\ task[j].status = task[j].err

\* C29: after any interleaving of signups there is at most one account for
\* an email, and a signup that obtained its ID has either created the account
\* or been answered 409.
C29_OneAccountPerEmail ==
    /\ \A e \in Emails : Cardinality(get_account_by_email(e)) <= 1
    /\ \A k \in Tasks :
          (task[k].op = "signup" /\ task[k].pc = "done" /\ task[k].err = 0) =>
              \/ task[k].status = HTTP_409_CONFLICT
              \/ /\ task[k].status = HTTP_201_CREATED
                 /\ [user_id |-> task[k].id, email |-> task[k].email] \in accounts

StoredIn(caches, dataset, key) ==
    IF dataset \in DOMAIN caches THEN GetValue(caches[dataset], key) ELSE None

Stored(dataset, key) == StoredIn(all_caches, dataset, key)

\* C31: below the capacity of a dataset, a read answers found = true with the
\* value saved last if the last save or delete on its dataset and key was a
\* save, and found = false with no value otherwise; a delete answers
\* found = true exactly when the key was there before it, and then removes
\* it; a save is answered 201; and a request on a dataset and key changes what
\* is stored for no other key and for no other dataset.
C31_ReadsLastSave ==
    [][cops' # cops =>
         LET d == cresp'.dataset
             k == cresp'.key
             saved == last_op[d][k].op = "save"
         IN  /\ cresp'.op = "read" =>
                    /\ cresp'.status = HTTP_200_OK
                    /\ cresp'.found = saved
                    /\ cresp'.value = IF saved THEN last_op[d][k].value ELSE None
                    /\ StoredIn(all_caches', d, k) = Stored(d, k)
             /\ cresp'.op = "delete" =>
                    /\ cresp'.found = (Stored(d, k) # None)
                    /\ cresp'.found = saved
                    /\ cresp'.found => cresp'.status = HTTP_201_CREATED
                    /\ StoredIn(all_caches', d, k) = None
             /\ cresp'.op = "save" =>
                    /\ cresp'.status = HTTP_201_CREATED
                    /\ StoredIn(all_caches', d, k) = last_op'[d][k].value
                    /\ StoredIn(all_caches', d, k) \in CacheValues
             /\ \A d2 \in Datasets, k2 \in CacheKeys :
                    <<d2, k2>> # <<d, k>> => StoredIn(all_caches', d2, k2) = Stored(d2, k2)
             /\ \A d2 \in DOMAIN all_caches' : Len(all_caches'[d2]) < maxsize]_vars

\* a key saved in two datasets was deleted in one of them: the read of that
\* one answers found = false, the other dataset still holds its value
C31_Witness ==
    /\ cresp.op = "read" /\ ~cresp.found /\ cresp.value = None
    /\ last_op[cresp.dataset][cresp.key].op = "delete"
    /\ cresp.dataset \in DOMAIN all_caches /\ all_caches[cresp.dataset] = <<>>
    /\ \E d2 \in Datasets \ {cresp.dataset} :
          /\ last_op[d2][cresp.key] = [op |-> "save", value |-> "v"]
          /\ Stored(d2, cresp.key) = "v"
====
